---- MODULE Spec2Model ----
(***************************************************************************)
(* Model of listen-email.py: wake-word triggered recording, temporary WAV  *)
(* file, delivery by e-mail, deletion of the file after a successful send. *)
(*                                                                         *)
(* Time is counted in clock ticks, TicksPerSecond ticks to the second.     *)
(* Frames are identified by their arrival number 1, 2, 3, ...              *)
(***************************************************************************)
EXTENDS Integers, Sequences, FiniteSets, TLC

\* ---- bounds of the model ------------------------------------------------
MaxFrames == 4
MaxClock == 4
MaxDuration == 1
MaxStep == 1
TicksPerSecond == 2

\* ---- values ---------------------------------------------------------------
\* Python's None, for recording_start_time and for a file name not yet chosen
None == -1

\* porcupine.process(pcm): -1 is "no keyword", 0 is the one configured keyword
KeywordIndices == {-1, 0}

VARIABLES
    pc,                          \* position of the script
    porcupine,                   \* "none" | "created" | "deleted"
    recorder,                    \* "none" | "constructed" | "started" | "stopped" | "deleted"
    RECORDING_DURATION_SECONDS,  \* configuration, fixed at start
    ticksPerSecond,              \* resolution of the clock, fixed at start
    recording,
    audio_frames,
    recording_start_time,
    temp_filename,
    email_sent,
    fs,                          \* TEMP_AUDIO_DIR: file name -> [data, complete]
    clock,                       \* wall clock, in ticks
    nframes,                     \* frames pulled from the recorder so far
    trigFrame,                   \* history: frame that started the current window
    matched,                     \* history: the detector has reported a match
    retrig,                      \* history: a match arrived while Recording in this window
    windows,                     \* history: number of Idle -> Recording transitions
    session,                     \* history: the latest completed window
    retained,                    \* history: artifacts left after a failed send, name -> frames
    exitCause,                   \* history: "none" | "interrupt" | "error"
    exitAt                       \* history: position at which the loop was left

vars == <<pc, porcupine, recorder, RECORDING_DURATION_SECONDS, ticksPerSecond,
          recording, audio_frames, recording_start_time, temp_filename,
          email_sent, fs, clock, nframes, trigFrame, matched, retrig, windows,
          session, retained, exitCause, exitAt>>

cfg == <<RECORDING_DURATION_SECONDS, ticksPerSecond>>
ctl == <<porcupine, recorder, cfg>>
cap == <<recording, audio_frames, recording_start_time>>
hist == <<trigFrame, matched, retrig, windows>>
exit == <<exitCause, exitAt>>

\* ---- helpers --------------------------------------------------------------
Range(a, b) == [k \in 1..(b - a + 1) |-> a + k - 1]

Elems(s) == {s[k] : k \in 1..Len(s)}

Min(a, b) == IF a <= b THEN a ELSE b

\* the values a read of the wall clock can return, given the last one
Later(t) == t..Min(t + MaxStep, MaxClock)

\* datetime.now().strftime("%Y%m%d_%H%M%S"): the time cut to whole seconds
Timestamp(t) == t \div ticksPerSecond

DurationReachedLate(elapsed, d) == elapsed > d * ticksPerSecond

\* elapsed_time >= RECORDING_DURATION_SECONDS, elapsed in ticks
DurationReached(elapsed, d) == elapsed >= d * ticksPerSecond

StartsWindowAnyFrame(keyword_index, rec) == ~rec

StartsWindowRetrigger(keyword_index, rec) == keyword_index = 0

\* if keyword_index == 0: if not recording: ...
StartsWindow(keyword_index, rec) == keyword_index = 0 /\ ~rec

OnFrameCheckBeforeAppend(rec, buf, st, keyword_index, pcm, t1, t2) ==
    LET started == StartsWindow(keyword_index, rec)
        rec1 == IF started THEN TRUE ELSE rec
        buf1 == IF started THEN <<>> ELSE buf
        st1 == IF started THEN t1 ELSE st
    IN  IF rec1
        THEN IF DurationReached(t2 - st1, RECORDING_DURATION_SECONDS)
             THEN [recording |-> FALSE, audio_frames |-> buf1,
                   recording_start_time |-> None, done |-> TRUE,
                   started |-> started]
             ELSE [recording |-> TRUE, audio_frames |-> Append(buf1, pcm),
                   recording_start_time |-> st1, done |-> FALSE,
                   started |-> started]
        ELSE [recording |-> rec1, audio_frames |-> buf1,
              recording_start_time |-> st1, done |-> FALSE,
              started |-> started]

OnFrameKeepsStart(rec, buf, st, keyword_index, pcm, t1, t2) ==
    LET started == StartsWindow(keyword_index, rec)
        rec1 == IF started THEN TRUE ELSE rec
        buf1 == IF started THEN <<>> ELSE buf
        st1 == IF started THEN t1 ELSE st
    IN  IF rec1
        THEN LET buf2 == Append(buf1, pcm)
                 done == DurationReached(t2 - st1, RECORDING_DURATION_SECONDS)
             IN  [recording |-> ~done, audio_frames |-> buf2,
                  recording_start_time |-> st1, done |-> done,
                  started |-> started]
        ELSE [recording |-> rec1, audio_frames |-> buf1,
              recording_start_time |-> st1, done |-> FALSE,
              started |-> started]

\* One iteration of the loop body up to line 134, as a function of the
\* capture state, the frame, the detector's answer and the two clock reads
\* (t1 at line 123, t2 at line 128).
OnFrame(rec, buf, st, keyword_index, pcm, t1, t2) ==
    LET started == StartsWindow(keyword_index, rec)
        rec1 == IF started THEN TRUE ELSE rec
        buf1 == IF started THEN <<>> ELSE buf
        st1 == IF started THEN t1 ELSE st
    IN  IF rec1
        THEN LET buf2 == Append(buf1, pcm)
                 elapsed_time == t2 - st1
             IN  IF DurationReached(elapsed_time, RECORDING_DURATION_SECONDS)
                 THEN [recording |-> FALSE, audio_frames |-> buf2,
                       recording_start_time |-> None, done |-> TRUE,
                       started |-> started]
                 ELSE [recording |-> TRUE, audio_frames |-> buf2,
                       recording_start_time |-> st1, done |-> FALSE,
                       started |-> started]
        ELSE [recording |-> rec1, audio_frames |-> buf1,
              recording_start_time |-> st1, done |-> FALSE,
              started |-> started]

\* the record kept of a completed window: the frame that started it, the
\* clock reads of its start and end, the buffer handed on, and what the write,
\* the send and the disposal did
NewSession(id, first, last, start, endTime, frames) ==
    [id |-> id, first |-> first, last |-> last, start |-> start,
     endTime |-> endTime, frames |-> frames, name |-> None,
     written |-> FALSE, sendCalls |-> 0, attached |-> <<>>, connects |-> 0,
     outcome |-> "none", removeTried |-> FALSE, removed |-> FALSE,
     closed |-> FALSE, prevLast |-> 0]

NoSession == NewSession(0, 0, 0, None, None, <<>>)

\* ---- initial state: after line 30, before the initialisation at line 84 ---
Init ==
    /\ pc = "init_porcupine"
    /\ porcupine = "none"
    /\ recorder = "none"
    /\ RECORDING_DURATION_SECONDS \in 0..MaxDuration
    /\ ticksPerSecond = TicksPerSecond
    /\ recording = FALSE
    /\ audio_frames = <<>>
    /\ recording_start_time = None
    /\ temp_filename = None
    /\ email_sent = FALSE
    /\ fs = <<>>
    /\ clock = 0
    /\ nframes = 0
    /\ trigFrame = 0
    /\ matched = FALSE
    /\ retrig = FALSE
    /\ windows = 0
    /\ session = NoSession
    /\ retained = <<>>
    /\ exitCause = "none"
    /\ exitAt = ""

\* ---- initialisation (lines 84-105) ---------------------------------------
\* pvporcupine.create succeeds
InitPorcupineOk ==
    /\ pc = "init_porcupine"
    /\ porcupine' = "created"
    /\ pc' = "init_recorder"
    /\ UNCHANGED <<recorder, cfg, cap, temp_filename,
                   email_sent, fs, clock, nframes, hist, session, retained,
                   exit>>

\* pvporcupine.create raises: diagnostic and exit()
InitPorcupineFail ==
    /\ pc = "init_porcupine"
    /\ pc' = "exited"
    /\ UNCHANGED <<ctl, cap, temp_filename, email_sent, fs, clock, nframes,
                   hist, session, retained, exit>>

\* PvRecorder(...) and recorder.start() succeed
InitRecorderOk ==
    /\ pc = "init_recorder"
    /\ recorder' = "started"
    /\ pc' = "read"
    /\ UNCHANGED <<porcupine, cfg, cap, temp_filename,
                   email_sent, fs, clock, nframes, hist, session, retained,
                   exit>>

\* PvRecorder(...) raises (no recorder exists) or recorder.start() raises (the
\* recorder exists, not started): diagnostic and exit(), nothing is released
InitRecorderFail ==
    /\ pc = "init_recorder"
    /\ recorder' \in {"none", "constructed"}
    /\ pc' = "exited"
    /\ UNCHANGED <<porcupine, cfg, cap, temp_filename,
                   email_sent, fs, clock, nframes, hist, session, retained,
                   exit>>

\* ---- main loop, lines 115-134 and 168 --------------------------------------
\* One frame is pulled and classified; the capture state follows OnFrame. When
\* the window completes with a non-empty buffer the script goes on to write it
\* (line 136); with an empty one it only reports (line 165).
ProcessFrame(keyword_index, t1, t2) ==
    LET pcm == nframes + 1
        r == OnFrame(recording, audio_frames, recording_start_time,
                     keyword_index, pcm, t1, t2)
        first == IF r.started THEN pcm ELSE trigFrame
        start == IF r.started THEN t1 ELSE recording_start_time
    IN  /\ recording' = r.recording
        /\ audio_frames' = r.audio_frames
        /\ recording_start_time' = r.recording_start_time
        /\ nframes' = pcm
        /\ clock' = t2
        /\ trigFrame' = first
        /\ matched' = (matched \/ keyword_index = 0)
        /\ retrig' = IF r.started THEN FALSE
                     ELSE (retrig \/ (recording /\ keyword_index = 0))
        /\ windows' = IF r.started THEN windows + 1 ELSE windows
        /\ IF r.done /\ r.audio_frames # <<>>
           THEN /\ pc' = "write_open"
                /\ session' = [NewSession(session.id + 1, first, pcm, start,
                                          t2, r.audio_frames)
                                  EXCEPT !.prevLast = session.last]
           ELSE /\ pc' = "read"
                /\ UNCHANGED session
        /\ UNCHANGED <<ctl, temp_filename, email_sent, fs, retained, exit>>

\* the frame, the detector's answer and the clock reads are the environment's
ReadFrame ==
    /\ pc = "read"
    /\ nframes < MaxFrames
    /\ \E keyword_index \in KeywordIndices, t1 \in Later(clock) :
         \E t2 \in Later(t1) : ProcessFrame(keyword_index, t1, t2)

\* ---- cleanup, lines 172-178 ------------------------------------------------
\* how far the finally block gets: each release call can raise, and an
\* exception leaves the block at once
CleanupResults == {"complete", "stop_raised", "delete_raised",
                   "porcupine_delete_raised"}

\* recorder.stop(); recorder.delete(); porcupine.delete(); the process ends
Finally(result) ==
    /\ recorder' = CASE result = "stop_raised" -> recorder
                     [] result = "delete_raised" -> "stopped"
                     [] OTHER -> "deleted"
    /\ porcupine' = IF result = "complete" THEN "deleted" ELSE porcupine
    /\ pc' = "exited"

\* recorder.read() or porcupine.process() raises: not a KeyboardInterrupt, so
\* only the outer finally runs
ReadError ==
    /\ pc = "read"
    /\ \E result \in CleanupResults : Finally(result)
    /\ exitCause' = "error"
    /\ exitAt' = pc
    /\ UNCHANGED <<cfg, cap, temp_filename, email_sent,
                   fs, clock, nframes, hist, session, retained>>

\* ---- saving the recording, lines 136-147 -----------------------------------
\* wave.open(temp_filename, 'wb') creates the file, or truncates the file of
\* that name
WriteOpenOk ==
    /\ pc = "write_open"
    /\ \E t \in Later(clock) :
         LET name == Timestamp(t)
         IN  /\ clock' = t
             /\ temp_filename' = name
             /\ fs' = (name :> [data |-> <<>>, complete |-> FALSE]) @@ fs
             /\ session' = [session EXCEPT !.name = name]
    /\ pc' = "write_frames"
    /\ UNCHANGED <<ctl, cap, email_sent, nframes, hist, retained, exit>>

\* wave.open raises: line 160 catches, line 163 clears the buffer
WriteOpenFail ==
    /\ pc = "write_open"
    /\ \E t \in Later(clock) :
         /\ clock' = t
         /\ temp_filename' = Timestamp(t)
         /\ session' = [session EXCEPT !.name = Timestamp(t),
                                       !.outcome = "PersistenceFailure",
                                       !.closed = TRUE]
    /\ audio_frames' = <<>>
    /\ pc' = "read"
    /\ UNCHANGED <<ctl, recording, recording_start_time, email_sent, fs,
                   nframes, hist, retained, exit>>

\* wf.writeframes(...) and the close of the with-block succeed
WriteFramesOk ==
    /\ pc = "write_frames"
    /\ fs' = [fs EXCEPT ![temp_filename] =
                 [data |-> audio_frames, complete |-> TRUE]]
    /\ session' = [session EXCEPT !.written = TRUE]
    /\ pc' = "send_attach"
    /\ UNCHANGED <<ctl, cap, temp_filename, email_sent, clock, nframes, hist,
                   retained, exit>>

\* the file after a write that raised: some of the data, not all of it
PartialWrite ==
    /\ \E k \in 0..(Len(audio_frames) - 1) :
         fs' = [fs EXCEPT ![temp_filename] =
                   [data |-> SubSeq(audio_frames, 1, k), complete |-> FALSE]]
    /\ session' = [session EXCEPT !.outcome = "PersistenceFailure",
                                  !.closed = TRUE]
    /\ audio_frames' = <<>>

WriteFramesFailSendsAnyway ==
    /\ pc = "write_frames"
    /\ PartialWrite
    /\ pc' = "send_attach"
    /\ UNCHANGED <<ctl, recording, recording_start_time, temp_filename,
                   email_sent, clock, nframes, hist, retained, exit>>

WriteFramesFailUncaught ==
    /\ pc = "write_frames"
    /\ PartialWrite
    /\ pc' = "exited"
    /\ UNCHANGED <<ctl, recording, recording_start_time, temp_filename,
                   email_sent, clock, nframes, hist, retained, exit>>

\* wf.writeframes(...) raises after writing some of the data: line 160
\* catches, line 163 clears the buffer, the loop goes on
WriteFramesFail ==
    /\ pc = "write_frames"
    /\ PartialWrite
    /\ pc' = "read"
    /\ UNCHANGED <<ctl, recording, recording_start_time, temp_filename,
                   email_sent, clock, nframes, hist, retained, exit>>

\* ---- send_audio_email, lines 33-79 -----------------------------------------
\* the call returns False: the outcome is recorded and the caller goes on at
\* line 154 with email_sent = False
SendReturnsFalse(outcome, opened) ==
    /\ email_sent' = FALSE
    /\ session' = [session EXCEPT !.outcome = outcome,
                                  !.connects = @ + opened]
    /\ pc' = "dispose"

\* lines 34-53: the message is built and the file is read into the attachment
SendAttachOk ==
    /\ pc = "send_attach"
    /\ session' = [session EXCEPT !.sendCalls = @ + 1,
                                  !.attached = fs[temp_filename].data]
    /\ pc' = "send_connect"
    /\ UNCHANGED <<ctl, cap, temp_filename, email_sent, fs, clock, nframes,
                   hist, retained, exit>>

SendAttachFailConnects ==
    /\ pc = "send_attach"
    /\ session' = [session EXCEPT !.sendCalls = @ + 1,
                                  !.outcome = "AttachmentFailure"]
    /\ pc' = "send_connect"
    /\ UNCHANGED <<ctl, cap, temp_filename, email_sent, fs, clock, nframes,
                   hist, retained, exit>>

\* lines 54-59: reading the file raises, the function returns False
SendAttachFail ==
    /\ pc = "send_attach"
    /\ email_sent' = FALSE
    /\ session' = [session EXCEPT !.sendCalls = @ + 1,
                                  !.outcome = "AttachmentFailure"]
    /\ pc' = "dispose"
    /\ UNCHANGED <<ctl, cap, temp_filename, fs, clock, nframes, hist,
                   retained, exit>>

\* lines 62-63: smtplib.SMTP(SMTP_SERVER, SMTP_PORT) connects, starttls()
SendConnectOk ==
    /\ pc = "send_connect"
    /\ session' = [session EXCEPT !.connects = @ + 1]
    /\ pc' = "send_login"
    /\ UNCHANGED <<ctl, cap, temp_filename, email_sent, fs, clock, nframes,
                   hist, retained, exit>>

SendConnectFailRetries ==
    /\ pc = "send_connect"
    /\ session' = [session EXCEPT !.connects = @ + 1]
    /\ pc' = "send_connect"
    /\ UNCHANGED <<ctl, cap, temp_filename, email_sent, fs, clock, nframes,
                   hist, retained, exit>>

\* lines 74-79: the connection attempt or starttls() raises
SendConnectFail ==
    /\ pc = "send_connect"
    /\ SendReturnsFalse("TransportFailure", 1)
    /\ UNCHANGED <<ctl, cap, temp_filename, fs, clock, nframes, hist,
                   retained, exit>>

\* line 64: server.login accepts the credentials
SendLoginOk ==
    /\ pc = "send_login"
    /\ pc' = "send_mail"
    /\ UNCHANGED <<ctl, cap, temp_filename, email_sent, fs, clock, nframes,
                   hist, session, retained, exit>>

\* lines 70-79: server.login raises SMTPAuthenticationError, or another error
SendLoginFail ==
    /\ pc = "send_login"
    /\ \E outcome \in {"AuthFailure", "TransportFailure"} :
         SendReturnsFalse(outcome, 0)
    /\ UNCHANGED <<ctl, cap, temp_filename, fs, clock, nframes, hist,
                   retained, exit>>

\* lines 65-69: sendmail and quit succeed, the function returns True
SendMailOk ==
    /\ pc = "send_mail"
    /\ email_sent' = TRUE
    /\ session' = [session EXCEPT !.outcome = "Success"]
    /\ pc' = "dispose"
    /\ UNCHANGED <<ctl, cap, temp_filename, fs, clock, nframes, hist,
                   retained, exit>>

\* lines 74-79: sendmail or quit raises
SendMailFail ==
    /\ pc = "send_mail"
    /\ SendReturnsFalse("TransportFailure", 0)
    /\ UNCHANGED <<ctl, cap, temp_filename, fs, clock, nframes, hist,
                   retained, exit>>

\* ---- disposal, lines 153-163 -----------------------------------------------
DeletesArtifactAlways(sent) == TRUE

\* if email_sent: the condition under which os.remove is called
DeletesArtifact(sent) == sent

RemoveFile(name) == [n \in (DOMAIN fs) \ {name} |-> fs[n]]

\* os.remove succeeds; finally clears the buffer
DisposeRemove ==
    /\ pc = "dispose"
    /\ DeletesArtifact(email_sent)
    /\ fs' = RemoveFile(temp_filename)
    /\ session' = [session EXCEPT !.removeTried = TRUE, !.removed = TRUE,
                                  !.closed = TRUE]
    /\ audio_frames' = <<>>
    /\ pc' = "read"
    /\ UNCHANGED <<ctl, recording, recording_start_time, temp_filename,
                   email_sent, clock, nframes, hist, retained, exit>>

\* os.remove raises: line 160 catches, finally clears the buffer
DisposeRemoveFail ==
    /\ pc = "dispose"
    /\ DeletesArtifact(email_sent)
    /\ session' = [session EXCEPT !.removeTried = TRUE, !.closed = TRUE]
    /\ audio_frames' = <<>>
    /\ pc' = "read"
    /\ UNCHANGED <<ctl, recording, recording_start_time, temp_filename,
                   email_sent, fs, clock, nframes, hist, retained, exit>>

DisposeRetainKeepsBuffer ==
    /\ pc = "dispose"
    /\ ~DeletesArtifact(email_sent)
    /\ session' = [session EXCEPT !.closed = TRUE]
    /\ retained' = (temp_filename :> session.frames) @@ retained
    /\ pc' = "read"
    /\ UNCHANGED <<ctl, cap, temp_filename, email_sent, fs, clock, nframes,
                   hist, exit>>

\* not email_sent: the file is left; finally clears the buffer
DisposeRetain ==
    /\ pc = "dispose"
    /\ ~DeletesArtifact(email_sent)
    /\ session' = [session EXCEPT !.closed = TRUE]
    /\ retained' = (temp_filename :> session.frames) @@ retained
    /\ audio_frames' = <<>>
    /\ pc' = "read"
    /\ UNCHANGED <<ctl, recording, recording_start_time, temp_filename,
                   email_sent, fs, clock, nframes, hist, exit>>

\* ---- KeyboardInterrupt, lines 170-178 --------------------------------------
\* positions inside the try of line 141, whose finally clears the buffer
InSessionTry == {"write_open", "write_frames", "send_attach", "send_connect",
                 "send_login", "send_mail", "dispose"}

LoopPcs == {"read"} \cup InSessionTry

InterruptSavesRecording ==
    /\ pc \in LoopPcs
    /\ audio_frames' = <<>>
    /\ fs' = IF audio_frames # <<>>
             THEN (Timestamp(clock) :>
                       [data |-> audio_frames, complete |-> TRUE]) @@ fs
             ELSE fs
    /\ exitCause' = "interrupt"
    /\ exitAt' = pc
    /\ \E result \in CleanupResults : Finally(result)
    /\ UNCHANGED <<cfg, recording, recording_start_time,
                   temp_filename, email_sent, clock, nframes, hist, session,
                   retained>>

\* The interrupt is raised at the current position. No handler of the file
\* write or of the send catches it (they catch Exception); the finally of line
\* 162 runs when the position is inside that try; line 171 reports, and the
\* outer finally releases the devices.
Interrupt ==
    /\ pc \in LoopPcs
    /\ audio_frames' = IF pc \in InSessionTry THEN <<>> ELSE audio_frames
    /\ exitCause' = "interrupt"
    /\ exitAt' = pc
    /\ \E result \in CleanupResults : Finally(result)
    /\ UNCHANGED <<cfg, recording, recording_start_time,
                   temp_filename, email_sent, fs, clock, nframes, hist,
                   session, retained>>

Next ==
    \/ InitPorcupineOk \/ InitPorcupineFail
    \/ InitRecorderOk \/ InitRecorderFail
    \/ ReadFrame \/ ReadError
    \/ WriteOpenOk \/ WriteOpenFail
    \/ WriteFramesOk \/ WriteFramesFail
    \/ SendAttachOk \/ SendAttachFail
    \/ SendConnectOk \/ SendConnectFail
    \/ SendLoginOk \/ SendLoginFail
    \/ SendMailOk \/ SendMailFail
    \/ DisposeRemove \/ DisposeRemoveFail \/ DisposeRetain
    \/ Interrupt

Spec == Init /\ [][Next]_vars

\* ---- the 100 frames per second scenario ------------------------------------
\* frames pulled in the scenario
ScenarioMaxFrames == 215

\* RECORDING_DURATION_SECONDS = 2, a clock tick is 10 ms
ScenarioInit ==
    /\ pc = "init_porcupine"
    /\ porcupine = "none"
    /\ recorder = "none"
    /\ RECORDING_DURATION_SECONDS = 2
    /\ ticksPerSecond = 100
    /\ recording = FALSE
    /\ audio_frames = <<>>
    /\ recording_start_time = None
    /\ temp_filename = None
    /\ email_sent = FALSE
    /\ fs = <<>>
    /\ clock = 0
    /\ nframes = 0
    /\ trigFrame = 0
    /\ matched = FALSE
    /\ retrig = FALSE
    /\ windows = 0
    /\ session = NoSession
    /\ retained = <<>>
    /\ exitCause = "none"
    /\ exitAt = ""

\* frame k is processed at tick k (one frame per 10 ms); the detector matches
\* on frame 10 and on no other frame
ScenarioFrame ==
    /\ pc = "read"
    /\ nframes < ScenarioMaxFrames
    /\ LET pcm == nframes + 1
       IN  ProcessFrame(IF pcm = 10 THEN 0 ELSE -1, pcm, pcm)

ScenarioNext == InitPorcupineOk \/ InitRecorderOk \/ ScenarioFrame

ScenarioSpec == ScenarioInit /\ [][ScenarioNext]_vars

\* ---- the loop left to run ----------------------------------------------------
\* The recorder keeps delivering frames and the clock keeps advancing:
\* recorder.read() blocks for a frame and line 168 sleeps, so every iteration
\* takes time (up to the horizon MaxClock of the model).
LiveReadFrame ==
    /\ pc = "read"
    /\ nframes < MaxFrames
    /\ \E keyword_index \in KeywordIndices, t1 \in Later(clock) :
         \E t2 \in Later(t1) :
            /\ t2 > clock \/ clock = MaxClock
            /\ ProcessFrame(keyword_index, t1, t2)

\* the calls of the write, the send and the disposal: each returns or raises
SessionStep ==
    \/ WriteOpenOk \/ WriteOpenFail
    \/ WriteFramesOk \/ WriteFramesFail
    \/ SendAttachOk \/ SendAttachFail
    \/ SendConnectOk \/ SendConnectFail
    \/ SendLoginOk \/ SendLoginFail
    \/ SendMailOk \/ SendMailFail
    \/ DisposeRemove \/ DisposeRemoveFail \/ DisposeRetain

\* no shutdown signal and no error of the recorder or the detector
LiveNext ==
    \/ InitPorcupineOk
    \/ InitRecorderOk
    \/ LiveReadFrame
    \/ SessionStep

\* the single thread goes on whenever it can: the frame pull returns, and so
\* does every call of a session
LiveSpec ==
    /\ Init
    /\ [][LiveNext]_vars
    /\ WF_vars(LiveReadFrame)
    /\ WF_vars(SessionStep)

\* ---- properties ------------------------------------------------------------
SendPcs == {"send_attach", "send_connect", "send_login", "send_mail"}

DeliveryFailures == {"AttachmentFailure", "AuthFailure", "TransportFailure"}

\* the script is at the loop's frame pull right after closing a session: no
\* frame was pulled and no shutdown or error happened since
JustClosed ==
    /\ session.id > 0
    /\ session.closed
    /\ nframes = session.last
    /\ exitCause = "none"

\* C1: the buffer handed to persistence for a window that a match on frame i
\* opened is exactly the frames i..j in arrival order, j being the first frame
\* at whose check the elapsed time reached RECORDING_DURATION_SECONDS: while
\* the window is open the buffer is i..(latest frame) and the latest check has
\* not reached the duration; the emitted buffer is i..j with the duration
\* reached at j; and the file written from it holds the same frames.
C1_EmittedBufferExact ==
    /\ (pc = "read" /\ recording) =>
          /\ audio_frames = Range(trigFrame, nframes)
          /\ clock - recording_start_time
                 < RECORDING_DURATION_SECONDS * ticksPerSecond
    /\ session.id > 0 =>
          /\ session.frames = Range(session.first, session.last)
          /\ session.first >= 1
          /\ session.endTime - session.start
                 >= RECORDING_DURATION_SECONDS * ticksPerSecond
    /\ pc \in {"write_open", "write_frames"} => audio_frames = session.frames
    /\ pc \in SendPcs =>
          fs[temp_filename] = [data |-> session.frames, complete |-> TRUE]

\* a window of several frames, opened after an earlier window was emitted,
\* has been written to its file
C1_Witness ==
    /\ pc = "send_attach"
    /\ session.id = 2
    /\ Len(session.frames) >= 2
    /\ session.first >= 2

\* C2 (as stated): once disposal has run, a Success outcome means the file is
\* gone, and any other delivery outcome means the file is there unchanged.
C2_AsStated ==
    (session.id > 0 /\ session.closed /\ session.outcome # "PersistenceFailure") =>
        IF session.outcome = "Success"
        THEN session.name \notin DOMAIN fs
        ELSE /\ session.name \in DOMAIN fs
             /\ fs[session.name] = [data |-> session.frames, complete |-> TRUE]

\* C2 (amended): once disposal has run, the file is gone exactly when the
\* outcome was Success and the deletion itself did not raise; when the
\* deletion raised, or the outcome was any failure, the file is there with
\* the contents written, and after a failure no deletion was attempted.
C2_DeleteOnlyAfterSuccess ==
    (session.id > 0 /\ session.closed /\ session.outcome # "PersistenceFailure") =>
        /\ session.outcome \in DeliveryFailures \cup {"Success"}
        /\ session.removeTried <=> (session.outcome = "Success")
        /\ IF session.removed
           THEN session.name \notin DOMAIN fs
           ELSE /\ session.name \in DOMAIN fs
                /\ fs[session.name] =
                       [data |-> session.frames, complete |-> TRUE]

\* a failed delivery has been disposed of, leaving the file
C2_Witness ==
    /\ session.closed
    /\ session.outcome \in DeliveryFailures
    /\ session.name \in DOMAIN fs

\* C3: as long as the detector has reported no match, the machine is Idle and
\* nothing is emitted: no session, no file, no send.
C3_NoTriggerNoSession ==
    ~matched =>
        /\ ~recording
        /\ audio_frames = <<>>
        /\ session = NoSession
        /\ fs = <<>>
        /\ pc \notin InSessionTry

\* several frames have been processed and none matched
C3_Witness == ~matched /\ nframes >= 3 /\ pc = "read"

\* C4: while Recording, the next frame leads to the same capture state and
\* the same emission whether or not the detector reports a match on it,
\* whatever the clock reads.
C4_RetriggerIgnored ==
    (pc = "read" /\ recording) =>
        \A t1 \in Later(clock) : \A t2 \in Later(t1) :
            OnFrame(recording, audio_frames, recording_start_time, 0,
                    nframes + 1, t1, t2)
            = OnFrame(recording, audio_frames, recording_start_time, -1,
                      nframes + 1, t1, t2)

\* a match arrived during a window, and the window was then emitted
C4_Witness ==
    /\ retrig
    /\ pc = "write_open"
    /\ session.last = nframes
    /\ Len(session.frames) >= 2

\* C5 (as stated): an artifact left after a failed delivery is still there,
\* unchanged, after every later session.
C5_RetainedNeverOverwritten ==
    \A n \in DOMAIN retained :
        /\ n \in DOMAIN fs
        /\ fs[n] = [data |-> retained[n], complete |-> TRUE]

\* C6: after a shutdown signal that arrived while Recording, the frames
\* buffered for that window are in no file and in no session handed on, and
\* the script does nothing but exit.
C6_InterruptDiscardsWindow ==
    (exitCause = "interrupt" /\ recording) =>
        /\ pc = "exited"
        /\ exitAt = "read"
        /\ audio_frames = Range(trigFrame, nframes)
        /\ \A n \in DOMAIN fs : Elems(fs[n].data) \cap Elems(audio_frames) = {}
        /\ Elems(session.frames) \cap Elems(audio_frames) = {}

\* the signal arrived with frames buffered, after an earlier window was saved
C6_Witness ==
    /\ exitCause = "interrupt"
    /\ recording
    /\ Len(audio_frames) >= 2
    /\ fs # <<>>

\* C7 (as stated): when the process has exited after acquiring a device, the
\* recorder is stopped and released and the detector is released.
C7_ReleasedOnEveryExit ==
    pc = "exited" =>
        /\ porcupine # "none" => porcupine = "deleted"
        /\ recorder # "none" => recorder = "deleted"

\* C8: right after a session in which the write, the attachment read, the
\* login, the transport or the deletion failed, the script is back at the
\* frame pull, Idle, with an empty buffer, and a match on the next frame
\* opens a new window.
C8_FailureContained ==
    (session.id > 0 /\ exitCause = "none" /\ nframes = session.last
       /\ pc \notin InSessionTry) =>
        /\ session.closed
        /\ pc = "read"
        /\ ~recording
        /\ audio_frames = <<>>
        /\ nframes < MaxFrames => ENABLED ReadFrame
        /\ OnFrame(recording, audio_frames, recording_start_time, 0,
                   nframes + 1, clock, clock).started

\* after a failed session a new window is being recorded
C8_Witness ==
    /\ session.closed
    /\ \/ session.outcome \in DeliveryFailures \cup {"PersistenceFailure"}
       \/ session.removeTried /\ ~session.removed
    /\ recording
    /\ pc = "read"
    /\ trigFrame > session.last

\* C9: when the write of a completed window failed, the send function is not
\* called and no connection is opened for that session, and the machine is
\* Idle at the frame pull afterwards.
C9_WriteFailureNoDelivery ==
    (session.outcome = "PersistenceFailure") =>
        /\ session.closed
        /\ session.sendCalls = 0
        /\ session.connects = 0
        /\ ~session.written
        /\ pc \notin InSessionTry
        /\ JustClosed => (pc = "read" /\ ~recording)

\* the write failed after the file was created
C9_Witness ==
    /\ session.outcome = "PersistenceFailure"
    /\ session.name \in DOMAIN fs
    /\ ~fs[session.name].complete
    /\ JustClosed

\* C10: when the attachment cannot be read, the send returns failure with no
\* connection attempted; a connection is only ever attempted after the
\* attachment was read.
C10_AttachmentFailureNoConnect ==
    /\ session.outcome = "AttachmentFailure" =>
          /\ session.connects = 0
          /\ ~email_sent
          /\ pc \notin {"send_connect", "send_login", "send_mail"}
    /\ session.connects > 0 => (session.written /\ session.sendCalls = 1)

\* the send has returned on an attachment failure
C10_Witness ==
    /\ session.outcome = "AttachmentFailure"
    /\ pc = "dispose"

\* C11: a completed window gets at most one call of the send function and at
\* most one connection to the relay, and what is attached is the file of that
\* window: no artifact left by an earlier failed send is sent again.
C11_AtMostOneDeliveryAttempt ==
    /\ session.sendCalls <= 1
    /\ session.connects <= session.sendCalls
    /\ session.closed => pc \notin InSessionTry
    /\ pc \in {"send_connect", "send_login", "send_mail"} =>
          /\ session.sendCalls = 1
          /\ session.attached = session.frames
          /\ \A n \in DOMAIN retained : retained[n] # session.attached

\* a later window is being sent while the artifact of an earlier failed send
\* is still kept
C11_Witness ==
    /\ pc = "send_login"
    /\ session.connects = 1
    /\ retained # <<>>

\* C12 (as stated): after an exit on the shutdown signal, every file in the
\* storage directory is a completely written artifact.
C12_NoPartialFileAfterShutdown ==
    (pc = "exited" /\ exitCause = "interrupt" /\ exitAt = "write_frames") =>
        \A n \in DOMAIN fs : fs[n].complete

\* C13 (as stated): the thread of the frame loop is never at a step that waits
\* on the delivery transport.
C13_LoopNeverWaitsOnNetwork ==
    pc \notin {"send_connect", "send_login", "send_mail"}

\* C14: in the scenario (100 frames per second, duration 2 s, match on frame
\* 10 only) nothing is emitted before frame 209 has been buffered, the window
\* is emitted no later than frame 210, and the emitted buffer has at least 200
\* frames, begins with frame 10 and holds frames 10..209 in order, with the
\* machine Idle right after the emission.
C14_ScenarioBuffer ==
    /\ nframes < 209 => session = NoSession
    /\ nframes >= 210 => pc = "write_open"
    /\ pc = "write_open" =>
          /\ session.id = 1
          /\ Len(session.frames) >= 200
          /\ session.frames[1] = 10
          /\ \A k \in 10..209 : session.frames[k - 9] = k
          /\ audio_frames = session.frames
          /\ ~recording
          /\ windows = 1

\* the window of the scenario has been emitted
C14_Witness ==
    /\ ticksPerSecond = 100
    /\ pc = "write_open"
    /\ session.first = 10
    /\ session.last >= 209

\* C15: at every loop-iteration boundary, Idle implies an empty buffer: the
\* buffer holds frames only while Recording or while the completed window is
\* being written, sent and disposed of, and it is empty once that has ended,
\* however it ended.
C15_IdleBufferEmpty ==
    /\ (pc = "read" /\ ~recording) => audio_frames = <<>>
    /\ audio_frames # <<>> => (recording \/ pc \in InSessionTry)
    /\ session.closed => audio_frames = <<>> \/ recording

\* the loop is back at the frame pull, Idle, after a window was handed on and
\* its delivery failed
C15_Witness ==
    /\ pc = "read"
    /\ ~recording
    /\ session.closed
    /\ session.outcome \in DeliveryFailures
    /\ exitCause = "none"

\* C16: whenever the duration check of the next frame can fire, the buffer
\* then holds at least one frame, for every configured duration including 0;
\* so the writer is never given an empty buffer and every emitted window has
\* a frame.
C16_EmittedBufferNonEmpty ==
    /\ pc = "read" =>
          \A keyword_index \in KeywordIndices, t1 \in Later(clock) :
              \A t2 \in Later(t1) :
                  LET r == OnFrame(recording, audio_frames,
                                   recording_start_time, keyword_index,
                                   nframes + 1, t1, t2)
                  IN  r.done => Len(r.audio_frames) >= 1
    /\ pc \in {"write_open", "write_frames"} => Len(audio_frames) >= 1
    /\ session.id > 0 => Len(session.frames) >= 1
    /\ session.id = 0 => pc \notin InSessionTry

\* with a duration of 0 the window completes on the very frame that matched
C16_Witness ==
    /\ RECORDING_DURATION_SECONDS = 0
    /\ pc = "write_open"
    /\ session.frames = <<session.first>>

\* C17: recording windows never overlap: every Idle -> Recording transition
\* is followed by its emission before the next one, an emitted window begins
\* after the end of the one emitted before it, and a window is open only when
\* the write, send and disposal of the one before it have ended.
C17_WindowsDisjoint ==
    /\ session.id <= windows
    /\ windows <= session.id + 1
    /\ (windows = session.id + 1) <=> recording
    /\ session.id > 0 =>
          /\ session.prevLast < session.first
          /\ session.first <= session.last
    /\ recording =>
          /\ session.last < trigFrame
          /\ pc \notin InSessionTry
          /\ session.id > 0 => session.closed

\* a second window is open after the first was emitted and disposed of
C17_Witness ==
    /\ recording
    /\ pc = "read"
    /\ session.id = 1
    /\ session.closed
    /\ windows = 2

\* C18: the start time is set exactly when the machine is Recording, so the
\* elapsed time of a buffered frame is always taken from a set start time.
C18_StartTimeSetIffRecording ==
    /\ recording <=> (recording_start_time # None)
    /\ recording => (recording_start_time >= 0 /\ recording_start_time <= clock)

\* the machine is Idle again, with the start time unset, after a window of
\* several frames
C18_Witness ==
    /\ pc = "read"
    /\ ~recording
    /\ recording_start_time = None
    /\ session.closed
    /\ Len(session.frames) >= 2

\* the clock value at which the open window's duration is reached
Deadline ==
    recording_start_time + RECORDING_DURATION_SECONDS * ticksPerSecond

\* C19: with frames arriving, the clock advancing, no shutdown and every call
\* returning, a Recording machine becomes Idle again (stated for every window
\* whose end lies within the model's horizon of time and frames), a session
\* being written, sent or disposed of ends with the loop back at the frame
\* pull, Idle with an empty buffer, and after a session the loop pulls the
\* next frame.
C19_Liveness ==
    /\ (recording /\ pc = "read" /\ Deadline <= MaxClock
          /\ nframes + (Deadline - clock) <= MaxFrames) ~> ~recording
    /\ (pc \in InSessionTry) ~>
          (pc = "read" /\ ~recording /\ audio_frames = <<>> /\ session.closed)
    /\ (JustClosed /\ nframes < MaxFrames) ~> (nframes > session.prevLast
                                                 /\ ~JustClosed)

\* after a failed session the loop has pulled further frames and a new window
\* has been emitted, before the horizon of the model
C19_Witness ==
    /\ session.id = 2
    /\ pc = "write_open"
    /\ retained # <<>>
    /\ nframes < MaxFrames

====
